---- MODULE Spec2Model ----
(***************************************************************************)
(* Progressive-disclosure graph visualisation of KnowledgeCatalyst:        *)
(*   frontend/app.py              get_visible_nodes, the graph tab of the  *)
(*                                Streamlit host                           *)
(*   backend/src/neighbours.py    get_neighbour_nodes                      *)
(*   frontend/cytoscape_graph.py  _escape_property_value,                  *)
(*                                _convert_to_cytoscape_format,            *)
(*                                _build_html_template,                    *)
(*                                render_cytoscape_graph                   *)
(*                                                                         *)
(* Text is a sequence of one-character strings, so that escaping,          *)
(* truncation and serialisation act on characters as the Python code does. *)
(* Fixed template text that carries no markup character may be kept as one *)
(* element (a run of ordinary characters); the characters  < > / & " ' \   *)
(* are always elements of their own.                                       *)
(***************************************************************************)
EXTENDS Integers, Sequences, FiniteSets, TLC

VARIABLES
    all_nodes,          \* argument: list of node records
    all_relationships,  \* argument: list of relationship records
    expanded_node_ids,  \* argument: set of element ids
    view_type,          \* argument: "data" or "schema"
    layout,             \* argument of render_cytoscape_graph
    height,             \* argument of render_cytoscape_graph
    pc,                 \* which call has returned
    visible,            \* result of get_visible_nodes
    elements,           \* result of _convert_to_cytoscape_format
    html_output,        \* result of render_cytoscape_graph
    sources,            \* host: whether st.session_state.sources is non-empty
    backend,            \* the graph the backend holds: [nodes, relationships]
    expand_selector,    \* host: widget state of the multiselect (labels)
    graph_data_calls,   \* host: number of calls of get_graph_data
    anchor_element_id,  \* argument element_id of get_neighbour_nodes
    driver,             \* get_neighbour_nodes: "none", "open" or "closed"
    close_calls,        \* get_neighbour_nodes: number of calls of driver.close
    exc,                \* get_neighbour_nodes: the exception raised, or "none"
    nb_result           \* get_neighbour_nodes: the value of result

host_vars == <<sources, backend, expand_selector, graph_data_calls>>
neighbour_vars == <<anchor_element_id, driver, close_calls, exc, nb_result>>

vars == <<all_nodes, all_relationships, expanded_node_ids, view_type, layout,
          height, pc, visible, elements, html_output, host_vars,
          neighbour_vars>>

(***************************************************************************)
(* Bounds of the explored inputs.                                          *)
(***************************************************************************)
MaxNodes == 3
MaxRels == 2

(***************************************************************************)
(* Generic helpers.                                                        *)
(***************************************************************************)
Range(s) == {s[i] : i \in DOMAIN s}

SeqsUpTo(S, n) == UNION {[1..k -> S] : k \in 0..n}

\* lists without a repeated element
DistinctSeqsUpTo(S, n) ==
    {s \in SeqsUpTo(S, n) : \A i, j \in DOMAIN s : i # j => s[i] # s[j]}

\* the sublists of `list` with at most n elements, in the order of `list`
SubListsUpTo(list, n) ==
    { LET nth(k) == CHOOSE i \in I : Cardinality({j \in I : j < i}) = k - 1
      IN  [k \in 1..Cardinality(I) |-> list[nth(k)]]
      : I \in {J \in SUBSET DOMAIN list : Cardinality(J) <= n} }

\* whether pat occurs in s as a contiguous run
Contains(s, pat) ==
    \E i \in 0..(Len(s) - Len(pat)) :
        \A j \in 1..Len(pat) : s[i + j] = pat[j]

(***************************************************************************)
(* Data records as the backend delivers them.                              *)
(*   properties: a dict in insertion order (items), or Python None         *)
(*   a property value: str (s), int (n), bool (n is 1 or 0), None, or an   *)
(*   object json cannot serialise                                          *)
(***************************************************************************)
Dict(items) == [is_none |-> FALSE, items |-> items]
NoneDict == [is_none |-> TRUE, items |-> <<>>]

StrVal(s) == [t |-> "str", s |-> s, n |-> 0]
IntVal(n) == [t |-> "int", s |-> <<>>, n |-> n]
BoolVal(b) == [t |-> "bool", s |-> <<>>, n |-> IF b THEN 1 ELSE 0]
NoneVal == [t |-> "null", s |-> <<>>, n |-> 0]
ObjVal == [t |-> "obj", s |-> <<>>, n |-> 0]

Item(k, v) == [key |-> k, value |-> v]

Node(id, labels, properties) ==
    [element_id |-> id, labels |-> labels, properties |-> properties]

Rel(id, start, end, type) ==
    [element_id |-> id, start_node_element_id |-> start,
     end_node_element_id |-> end, type |-> type]

\* the reserved anchor type, app.py line 250
DocumentLabel == <<"D", "o", "c", "u", "m", "e", "n", "t">>
ChunkLabel == <<"C", "h", "u", "n", "k">>

(***************************************************************************)
(* get_visible_nodes, app.py 233-284.                                      *)
(***************************************************************************)
\* lines 249-250: labels and labels[0] == 'Document'
IsDocumentAnyLabel(node) == DocumentLabel \in Range(node.labels)
IsDocument(node) == Len(node.labels) > 0 /\ node.labels[1] = DocumentLabel

\* lines 248-253
document_ids(nodes) ==
    {nodes[i].element_id : i \in {j \in DOMAIN nodes : IsDocument(nodes[j])}}

\* the loop shared by step 2 (256-263) and step 3 (267-274): for each
\* relationship, the other endpoint of an endpoint that lies in `from`
OtherEndpointsClosure(rels, from) ==
    LET hop(S) ==
            {rels[i].end_node_element_id :
                i \in {j \in DOMAIN rels : rels[j].start_node_element_id \in S}}
            \cup
            {rels[i].start_node_element_id :
                i \in {j \in DOMAIN rels : rels[j].end_node_element_id \in S}}
    IN  hop(from) \cup hop(hop(from))
OtherEndpoints(rels, from) ==
    {rels[i].end_node_element_id :
        i \in {j \in DOMAIN rels : rels[j].start_node_element_id \in from}}
    \cup
    {rels[i].start_node_element_id :
        i \in {j \in DOMAIN rels : rels[j].end_node_element_id \in from}}

\* lines 243-274: the set visible_node_ids after the three steps
visible_node_idsExpandedInstead(nodes, rels, expanded) ==
    document_ids(nodes)
    \cup (IF expanded # {} THEN OtherEndpoints(rels, expanded)
          ELSE OtherEndpoints(rels, document_ids(nodes)))
visible_node_ids(nodes, rels, expanded) ==
    document_ids(nodes)
    \cup OtherEndpoints(rels, document_ids(nodes))
    \cup (IF expanded # {} THEN OtherEndpoints(rels, expanded) ELSE {})

\* lines 239-241
SchemaViewFiltered(nodes, rels) ==
    LET ids == {nodes[i].element_id : i \in DOMAIN nodes}
    IN  [nodes |-> nodes,
         relationships |->
            SelectSeq(rels, LAMBDA r : r.start_node_element_id \in ids
                                       /\ r.end_node_element_id \in ids)]
SchemaView(nodes, rels) == [nodes |-> nodes, relationships |-> rels]

\* line 277; the mutant walks the id set through node_id_to_node (line 244),
\* in an order that is not the input's
visible_nodesFromIds(nodes, vis) ==
    LET kept == SelectSeq(nodes, LAMBDA n : n.element_id \in vis)
    IN  [i \in DOMAIN kept |-> kept[Len(kept) + 1 - i]]
visible_nodes(nodes, vis) == SelectSeq(nodes, LAMBDA n : n.element_id \in vis)

\* lines 278-282
visible_relationshipsEitherEnd(rels, vis) ==
    SelectSeq(rels, LAMBDA r : r.start_node_element_id \in vis
                               \/ r.end_node_element_id \in vis)
visible_relationships(rels, vis) ==
    SelectSeq(rels, LAMBDA r : r.start_node_element_id \in vis
                               /\ r.end_node_element_id \in vis)

get_visible_nodes(nodes, rels, expanded, vt) ==
    IF vt = "schema"
    THEN SchemaView(nodes, rels)
    ELSE LET vis == visible_node_ids(nodes, rels, expanded)
         IN  [nodes |-> visible_nodes(nodes, vis),
              relationships |-> visible_relationships(rels, vis)]

(***************************************************************************)
(* Text helpers.                                                           *)
(***************************************************************************)
Min(a, b) == IF a < b THEN a ELSE b

\* Python s[:n]
Take(s, n) == SubSeq(s, 1, Min(n, Len(s)))

\* Python sep.join(parts); the list is halved so that long lists stay
\* shallow
RECURSIVE Join(_, _)
Join(parts, sep) ==
    IF parts = <<>> THEN <<>>
    ELSE IF Len(parts) = 1 THEN Head(parts)
    ELSE LET mid == Len(parts) \div 2
         IN  Join(SubSeq(parts, 1, mid), sep) \o sep
             \o Join(SubSeq(parts, mid + 1, Len(parts)), sep)

DigitChar(d) ==
    CASE d = 0 -> "0" [] d = 1 -> "1" [] d = 2 -> "2" [] d = 3 -> "3"
      [] d = 4 -> "4" [] d = 5 -> "5" [] d = 6 -> "6" [] d = 7 -> "7"
      [] d = 8 -> "8" [] d = 9 -> "9"

\* Python str(n) of a non-negative int
RECURSIVE Digits(_)
Digits(n) == IF n < 10 THEN <<DigitChar(n)>>
             ELSE Digits(n \div 10) \o <<DigitChar(n % 10)>>

\* the character c, n times
Repeat(c, n) == [i \in 1..n |-> c]

(***************************************************************************)
(* _escape_property_value, cytoscape_graph.py 105-109, and html.escape     *)
(* (quote=True) of the standard library that it applies to a str.          *)
(***************************************************************************)
EscapeChar(c) ==
    CASE c = "&" -> <<"&", "a", "m", "p", ";">>
      [] c = "<" -> <<"&", "l", "t", ";">>
      [] c = ">" -> <<"&", "g", "t", ";">>
      [] c = "\"" -> <<"&", "q", "u", "o", "t", ";">>
      [] c = "'" -> <<"&", "#", "x", "2", "7", ";">>
      [] OTHER -> <<c>>

\* character by character; the text is halved so that long texts stay
\* shallow
RECURSIVE HtmlEscape(_)
HtmlEscape(s) ==
    IF s = <<>> THEN <<>>
    ELSE IF Len(s) = 1 THEN EscapeChar(s[1])
    ELSE LET mid == Len(s) \div 2
         IN  HtmlEscape(SubSeq(s, 1, mid)) \o HtmlEscape(SubSeq(s, mid + 1, Len(s)))

_escape_property_value(value) ==
    IF value.t = "str" THEN [value EXCEPT !.s = HtmlEscape(value.s)] ELSE value

\* what str() of the object that json cannot serialise shows (a date)
ObjText == <<"2", "0", "2", "0", "-", "0", "1", "-", "0", "1">>

\* Python str(value)
Str(value) ==
    CASE value.t = "str" -> value.s
      [] value.t = "int" -> Digits(value.n)
      [] value.t = "bool" -> IF value.n = 1 THEN <<"T", "r", "u", "e">>
                             ELSE <<"F", "a", "l", "s", "e">>
      [] value.t = "null" -> <<"N", "o", "n", "e">>
      [] value.t = "obj" -> ObjText

\* Python truthiness of a property value
TruthyNotNone(value) == value.t # "null"
Truthy(value) ==
    CASE value.t = "str" -> value.s # <<>>
      [] value.t = "int" -> value.n # 0
      [] value.t = "bool" -> value.n = 1
      [] value.t = "null" -> FALSE
      [] value.t = "obj" -> TRUE

\* dict.get(key) on a properties dict: the value, or None
Get(properties, key) ==
    IF \E i \in DOMAIN properties.items : properties.items[i].key = key
    THEN properties.items[CHOOSE i \in DOMAIN properties.items :
                              properties.items[i].key = key].value
    ELSE NoneVal

(***************************************************************************)
(* _convert_to_cytoscape_format, cytoscape_graph.py 112-200.               *)
(***************************************************************************)
key_id == <<"i", "d">>
key_name == <<"n", "a", "m", "e">>
key_fileName == <<"f", "i", "l", "e", "N", "a", "m", "e">>
key_embedding == <<"e", "m", "b", "e", "d", "d", "i", "n", "g">>
key_text == <<"t", "e", "x", "t">>
key_summary == <<"s", "u", "m", "m", "a", "r", "y">>

\* line 153
ReservedKeys == {key_embedding, key_text, key_summary}

\* lines 160, 166, 154
ExpandedSize == 25
DefaultSize == 20
CaptionMax == 30
TooltipValueMax == 100

DefaultColor == "#94a3b8"

\* lines 35-46
PersonLabel == <<"P", "e", "r", "s", "o", "n">>

COLOR_SCHEME ==
    [label \in {DocumentLabel, ChunkLabel, PersonLabel} |->
        CASE label = DocumentLabel -> "#3b82f6"
          [] label = ChunkLabel -> "#8b5cf6"
          [] OTHER -> "#10b981"]

\* lines 135-140: a or b or c or (labels[0] if labels else 'Node')
node_captionNameFirst(node) ==
    LET properties == node.properties
        labels == node.labels
    IN  IF Truthy(Get(properties, key_name)) THEN Get(properties, key_name)
        ELSE IF Truthy(Get(properties, key_id)) THEN Get(properties, key_id)
        ELSE IF Truthy(Get(properties, key_fileName))
             THEN Get(properties, key_fileName)
        ELSE IF labels # <<>> THEN StrVal(labels[1])
        ELSE StrVal(<<"N", "o", "d", "e">>)
node_caption(node) ==
    LET properties == node.properties
        labels == node.labels
    IN  IF Truthy(Get(properties, key_id)) THEN Get(properties, key_id)
        ELSE IF Truthy(Get(properties, key_name)) THEN Get(properties, key_name)
        ELSE IF Truthy(Get(properties, key_fileName))
             THEN Get(properties, key_fileName)
        ELSE IF labels # <<>> THEN StrVal(labels[1])
        ELSE StrVal(<<"N", "o", "d", "e">>)

\* line 143
node_color(labels, color_scheme) ==
    IF labels # <<>>
    THEN IF labels[1] \in DOMAIN color_scheme THEN color_scheme[labels[1]]
         ELSE DefaultColor
    ELSE DefaultColor

\* lines 152-155: the tooltip entries of the properties, in dict order
RECURSIVE property_parts(_)
property_parts(items) ==
    IF items = <<>> THEN <<>>
    ELSE LET key == Head(items).key
             value == Head(items).value
         IN  (IF key \notin ReservedKeys /\ Truthy(value)
              THEN << key \o <<": ">>
                      \o Take(Str(_escape_property_value(value)), TooltipValueMax) >>
              ELSE <<>>)
             \o property_parts(Tail(items))

\* lines 146-157
node_tooltip(node, expanded_nodes) ==
    LET tooltip_parts ==
            << <<"<", "strong", ">">>
                 \o Str(_escape_property_value(node_caption(node)))
                 \o <<"<", "/", "strong", ">">>,
               <<"Type: ">> \o Join(node.labels, <<", ">>) >>
            \o (IF node.element_id \in expanded_nodes
                THEN << <<"<", "em", ">", "Expanded", "<", "/", "em", ">">> >>
                ELSE <<>>)
            \o property_parts(node.properties.items)
    IN  Join(tooltip_parts, <<"<", "br", ">">>)

\* line 160: 25 if element_id in expanded_nodes else 20
node_sizeDefault(element_id, expanded_nodes) == DefaultSize
node_size(element_id, expanded_nodes) ==
    IF element_id \in expanded_nodes THEN ExpandedSize ELSE DefaultSize

\* lines 163-175
cy_node(node, expanded_nodes, color_scheme) ==
    [data |->
        [id |-> node.element_id,
         label |-> Take(Str(node_caption(node)), CaptionMax),
         labels |-> node.labels,
         color |-> node_color(node.labels, color_scheme),
         size |-> node_size(node.element_id, expanded_nodes),
         tooltip |-> node_tooltip(node, expanded_nodes),
         properties |-> node.properties,
         expanded |-> node.element_id \in expanded_nodes],
     classes |-> IF node.element_id \in expanded_nodes
                 THEN <<"expanded">> ELSE <<>>]

\* line 189: start_id and end_id and start_id in node_ids and end_id in node_ids
EndpointsNonEmpty(start_id, end_id, node_ids) ==
    start_id # <<>> /\ end_id # <<>>
EndpointsExist(start_id, end_id, node_ids) ==
    /\ start_id # <<>> /\ end_id # <<>>
    /\ start_id \in node_ids /\ end_id \in node_ids

\* lines 190-197
cy_edge(rel) ==
    [data |-> [id |-> rel.element_id,
               source |-> rel.start_node_element_id,
               target |-> rel.end_node_element_id,
               label |-> rel.type]]

\* message of the AttributeError raised by properties.get at line 136
NoneGetMessage ==
    <<"'", "NoneType", "'", " object has no attribute ", "'", "get", "'">>

\* the whole function: the mapped elements, or the exception it raises at
\* the first node whose properties is None
_convert_to_cytoscape_format(nodes, relationships, expanded_nodes, color_scheme) ==
    IF \E i \in DOMAIN nodes : nodes[i].properties.is_none
    THEN [ok |-> FALSE, exc |-> NoneGetMessage, nodes |-> <<>>, edges |-> <<>>]
    ELSE LET node_ids == {nodes[i].element_id : i \in DOMAIN nodes}
             kept == SelectSeq(relationships,
                        LAMBDA rel : EndpointsExist(rel.start_node_element_id,
                                                    rel.end_node_element_id,
                                                    node_ids))
         IN  [ok |-> TRUE, exc |-> <<>>,
              nodes |-> [i \in DOMAIN nodes |->
                            cy_node(nodes[i], expanded_nodes, color_scheme)],
              edges |-> [i \in DOMAIN kept |-> cy_edge(kept[i])]]

(***************************************************************************)
(* json.dumps as _build_html_template uses it (default separators,         *)
(* ensure_ascii): a str is quoted with " and \ escaped by a backslash.     *)
(* The texts of the model hold no control or non-ASCII character, whose    *)
(* \n and \uXXXX forms are therefore not modelled.                         *)
(***************************************************************************)
JsonChar(c) ==
    CASE c = "\"" -> <<"\\", "\"">>
      [] c = "\\" -> <<"\\", "\\">>
      [] OTHER -> <<c>>

RECURSIVE JsonChars(_)
JsonChars(s) ==
    IF s = <<>> THEN <<>>
    ELSE IF Len(s) = 1 THEN JsonChar(s[1])
    ELSE LET mid == Len(s) \div 2
         IN  JsonChars(SubSeq(s, 1, mid)) \o JsonChars(SubSeq(s, mid + 1, Len(s)))

JsonString(s) == <<"\"">> \o JsonChars(s) \o <<"\"">>

\* a dict key written in the source, such as "data"
JsonKey(name) == <<"\"", name, "\"", ": ">>

JsonValue(value) ==
    CASE value.t = "str" -> JsonString(value.s)
      [] value.t = "int" -> Digits(value.n)
      [] value.t = "bool" -> <<IF value.n = 1 THEN "true" ELSE "false">>
      [] value.t = "null" -> <<"null">>
      [] value.t = "obj" -> <<>>

JsonList(texts) == <<"[">> \o Join(texts, <<", ">>) \o <<"]">>

JsonProperties(properties) ==
    <<"{">>
    \o Join([i \in DOMAIN properties.items |->
                JsonString(properties.items[i].key) \o <<": ">>
                \o JsonValue(properties.items[i].value)], <<", ">>)
    \o <<"}">>

JsonNode(n) ==
    <<"{">> \o JsonKey("data") \o <<"{">>
    \o JsonKey("id") \o JsonString(n.data.id) \o <<", ">>
    \o JsonKey("label") \o JsonString(n.data.label) \o <<", ">>
    \o JsonKey("labels")
    \o JsonList([i \in DOMAIN n.data.labels |-> JsonString(n.data.labels[i])])
    \o <<", ">>
    \o JsonKey("color") \o JsonString(<<n.data.color>>) \o <<", ">>
    \o JsonKey("size") \o Digits(n.data.size) \o <<", ">>
    \o JsonKey("tooltip") \o JsonString(n.data.tooltip) \o <<", ">>
    \o JsonKey("properties") \o JsonProperties(n.data.properties) \o <<", ">>
    \o JsonKey("expanded")
    \o <<IF n.data.expanded THEN "true" ELSE "false">>
    \o <<"}", ", ">>
    \o JsonKey("classes") \o JsonString(n.classes) \o <<"}">>

JsonEdge(e) ==
    <<"{">> \o JsonKey("data") \o <<"{">>
    \o JsonKey("id") \o JsonString(e.data.id) \o <<", ">>
    \o JsonKey("source") \o JsonString(e.data.source) \o <<", ">>
    \o JsonKey("target") \o JsonString(e.data.target) \o <<", ">>
    \o JsonKey("label") \o JsonString(e.data.label)
    \o <<"}", "}">>

\* json.dumps(elements), elements == {'nodes': [...], 'edges': [...]}
JsonElements(els) ==
    <<"{">> \o JsonKey("nodes")
    \o JsonList([i \in DOMAIN els.nodes |-> JsonNode(els.nodes[i])])
    \o <<", ">> \o JsonKey("edges")
    \o JsonList([i \in DOMAIN els.edges |-> JsonEdge(els.edges[i])])
    \o <<"}">>

\* json.dumps raises TypeError on a value it cannot serialise
JsonSerialisable(els) ==
    \A i \in DOMAIN els.nodes :
        \A k \in DOMAIN els.nodes[i].data.properties.items :
            els.nodes[i].data.properties.items[k].value.t # "obj"

NotSerialisableMessage ==
    <<"Object of type date is not JSON serializable">>

\* line 220: .replace('</', '<\\/').  The text is split where no
\* occurrence of </ is cut, which str.replace (left to right, the pattern
\* cannot overlap itself) allows.
RECURSIVE ScriptSafe(_)
ScriptUnsafe(s) == s
ScriptSafe(s) ==
    IF Len(s) <= 1 THEN s
    ELSE IF Len(s) = 2
         THEN (IF s = <<"<", "/">> THEN <<"<", "\\", "/">> ELSE s)
    ELSE LET mid == (Len(s) + 1) \div 2
             cut == IF s[mid] = "<" /\ s[mid + 1] = "/" THEN mid - 1 ELSE mid
         IN  ScriptSafe(SubSeq(s, 1, cut)) \o ScriptSafe(SubSeq(s, cut + 1, Len(s)))

(***************************************************************************)
(* Layout presets, cytoscape_graph.py 49-102.                              *)
(***************************************************************************)
LayoutNames == {"cola", "cose", "dagre", "circle", "random"}

LAYOUT_CONFIGS ==
    [name \in LayoutNames |->
        CASE name = "cola" ->
                <<"name", "cola", "animate", "true", "animationDuration", "1000",
                  "maxSimulationTime", "4000", "ungrabifyWhileSimulating", "true",
                  "fit", "true", "avoidOverlap", "true",
                  "handleDisconnected", "true", "convergenceThreshold", "0.01",
                  "nodeSpacing", "50">>
          [] name = "cose" ->
                <<"name", "cose", "animate", "true", "animationDuration", "1000",
                  "animationEasing", "ease-out", "nodeRepulsion", "400000",
                  "idealEdgeLength", "100", "edgeElasticity", "100",
                  "gravity", "80", "numIter", "1000", "initialTemp", "200",
                  "coolingFactor", "0.95", "minTemp", "1.0">>
          [] name = "dagre" ->
                <<"name", "dagre", "animate", "true", "animationDuration", "800",
                  "rankDir", "TB", "ranker", "tight-tree", "nodeSep", "50",
                  "edgeSep", "10", "rankSep", "75", "fit", "true",
                  "padding", "30">>
          [] name = "circle" ->
                <<"name", "circle", "animate", "true", "animationDuration", "800",
                  "animationEasing", "ease-in-out-cubic", "avoidOverlap", "true",
                  "startAngle", "4.71238898", "clockwise", "true">>
          [] name = "random" ->
                <<"name", "random", "animate", "false", "fit", "true">>]

\* the keys of the presets whose value is a str; the others hold a number
\* or a bool, which json.dumps writes bare
LayoutStringKeys == {"name", "animationEasing", "rankDir", "ranker"}

\* json.dumps(layout_config)
JsonLayout(config) ==
    <<"{">>
    \o Join([i \in 1..(Len(config) \div 2) |->
                JsonKey(config[2 * i - 1])
                \o (IF config[2 * i - 1] \in LayoutStringKeys
                    THEN JsonString(<<config[2 * i]>>)
                    ELSE <<config[2 * i]>>)], <<", ">>)
    \o <<"}">>

\* a layout argument that is a list: `layout not in LAYOUT_CONFIGS` raises
UnhashableLayout == "['cola']"
UnhashableMessage == <<"unhashable type: ", "'", "list", "'">>

(***************************************************************************)
(* The three payloads.  A payload keeps the parts of the emitted document  *)
(* that vary: its kind, the escaped message of the empty and error         *)
(* templates, and for the graph template the elements it serialises, the   *)
(* serialised text, the layout parameters, their serialised text and the   *)
(* height.                                                                 *)
(***************************************************************************)
Payload(kind, message, els, elements_json, layout_config, layout_json, h) ==
    [kind |-> kind, message |-> message, elements |-> els,
     elements_json |-> elements_json, layout_config |-> layout_config,
     layout_json |-> layout_json, height |-> h]

NoElements == [ok |-> TRUE, exc |-> <<>>, nodes |-> <<>>, edges |-> <<>>]

\* an exception leaving a function
Raised(message) == Payload("raised", message, NoElements, <<>>, <<>>, <<>>, 0)

\* lines 220-221: .replace('</', '<\\/') leaves the text as it is
\* lines 203-396; 217: LAYOUT_CONFIGS.get(layout, LAYOUT_CONFIGS['cola'])
_build_html_template(els, layout_name, vt, h) ==
    LET layout_config == IF layout_name \in DOMAIN LAYOUT_CONFIGS
                         THEN LAYOUT_CONFIGS[layout_name]
                         ELSE LAYOUT_CONFIGS["cola"]
    IN  IF ~JsonSerialisable(els) THEN Raised(NotSerialisableMessage)
        ELSE Payload("graph", <<>>, els, ScriptSafe(JsonElements(els)),
                     layout_config, ScriptSafe(JsonLayout(layout_config)), h)

\* lines 399-434
_build_empty_graph_template(message) ==
    Payload("empty", HtmlEscape(message), NoElements, <<>>, <<>>, <<>>, 0)

\* lines 437-472
_build_error_template(error_message) ==
    Payload("error", HtmlEscape(error_message), NoElements, <<>>, <<>>, <<>>, 0)

\* line 493
NoGraphDataMessage ==
    <<"No graph data found. Upload and extract documents first.">>
NoNodesMessage ==
    <<"No nodes to display. Upload and extract documents first.">>

(***************************************************************************)
(* render_cytoscape_graph, cytoscape_graph.py 475-525.                     *)
(***************************************************************************)
\* lines 496, 510
SchemaNodeLimit == 100
DagreNodeLimit == 50

\* line 496: view_type == "schema" and len(nodes) > 100
SchemaTruncatesAnyView(vt, count) == count > SchemaNodeLimit
SchemaTruncates(vt, count) == vt = "schema" /\ count > SchemaNodeLimit

\* lines 505-507: a name that is no preset becomes 'cola'
FallbackLayoutDagre(layout_arg) ==
    IF layout_arg \notin DOMAIN LAYOUT_CONFIGS THEN "dagre" ELSE layout_arg
FallbackLayout(layout_arg) ==
    IF layout_arg \notin DOMAIN LAYOUT_CONFIGS THEN "cola" ELSE layout_arg

\* lines 510-512: dagre is too slow for a large schema graph
DensityLayoutFromLimit(vt, count, layout_name) ==
    IF vt = "schema" /\ count >= DagreNodeLimit /\ layout_name = "dagre"
    THEN "circle" ELSE layout_name
DensityLayout(vt, count, layout_name) ==
    IF vt = "schema" /\ count > DagreNodeLimit /\ layout_name = "dagre"
    THEN "circle" ELSE layout_name

\* line 498: nodes = nodes[:100] binds the local name to a new list; the
\* list the caller passed keeps every element
CallerNodesCutInPlace(nodes, vt) ==
    IF SchemaTruncates(vt, Len(nodes)) THEN Take(nodes, SchemaNodeLimit)
    ELSE nodes
CallerNodes(nodes, vt) == nodes

\* lines 491-521: the body of the try block
RenderBody(nodes, relationships, layout_arg, expanded_nodes, vt, h) ==
    IF nodes = <<>> THEN _build_empty_graph_template(NoNodesMessage)
    ELSE
    LET truncate == SchemaTruncates(vt, Len(nodes))
        nodes1 == IF truncate THEN Take(nodes, SchemaNodeLimit) ELSE nodes
        node_ids == {nodes1[i].element_id : i \in DOMAIN nodes1}
        relationships1 ==
            IF truncate
            THEN SelectSeq(relationships,
                    LAMBDA r : r.start_node_element_id \in node_ids
                               /\ r.end_node_element_id \in node_ids)
            ELSE relationships
    IN  IF layout_arg = UnhashableLayout THEN Raised(UnhashableMessage)
        ELSE
        LET layout1 == FallbackLayout(layout_arg)
            layout2 == DensityLayout(vt, Len(nodes1), layout1)
            els == _convert_to_cytoscape_format(nodes1, relationships1,
                                                expanded_nodes, COLOR_SCHEME)
        IN  IF ~els.ok THEN Raised(els.exc)
            ELSE _build_html_template(els, layout2, vt, h)

\* lines 523-525: except Exception as e: return _build_error_template(str(e))
CatchNone(result) == result
Catch(result) ==
    IF result.kind = "raised" THEN _build_error_template(result.message)
    ELSE result

render_cytoscape_graph(nodes, relationships, layout_arg, expanded_nodes, vt, h) ==
    Catch(RenderBody(nodes, relationships, layout_arg, expanded_nodes, vt, h))

(***************************************************************************)
(* Inputs of the visibility specification: a document, a chunk, an entity  *)
(* without labels and a node whose second label is Document; lists hold    *)
(* each node at most once (element ids are unique in the store), and       *)
(* relationships may mention nodes that are not supplied.                  *)
(***************************************************************************)
id_d1 == <<"d", "1">>
id_c1 == <<"c", "1">>
id_e2 == <<"e", "2">>
id_x3 == <<"x", "3">>

VisNodeUniverse ==
    { Node(id_d1, <<DocumentLabel>>, Dict(<<>>)),
      Node(id_c1, <<ChunkLabel>>, Dict(<<>>)),
      Node(id_e2, <<>>, Dict(<<>>)),
      Node(id_x3, <<ChunkLabel, DocumentLabel>>, Dict(<<>>)) }

HAS_CHUNK == <<"H", "A", "S", "_", "C", "H", "U", "N", "K">>
KNOWS == <<"K", "N", "O", "W", "S">>

VisRelUniverse ==
    { Rel(<<"r", "1">>, id_d1, id_c1, HAS_CHUNK),
      Rel(<<"r", "2">>, id_c1, id_e2, KNOWS),
      Rel(<<"r", "3">>, id_e2, id_x3, KNOWS),
      Rel(<<"r", "4">>, id_e2, id_d1, KNOWS),
      Rel(<<"r", "5">>, id_c1, id_c1, KNOWS),
      Rel(<<"r", "6">>, id_x3, id_c1, KNOWS) }

ExpandableIds == {id_d1, id_c1, id_e2}

NoPayload == Payload("none", <<>>, NoElements, <<>>, <<>>, <<>>, 0)
NoVisible == [nodes |-> <<>>, relationships |-> <<>>]

\* the result get_neighbour_nodes returns on a failure, line 77
EmptyResult == [nodes |-> <<>>, relationships |-> <<>>]

\* the host and the backend take no part
HostIdle ==
    /\ sources = FALSE
    /\ backend = [nodes |-> <<>>, relationships |-> <<>>]
    /\ expand_selector = {}
    /\ graph_data_calls = 0

\* no call of get_neighbour_nodes is under way
NeighbourIdle ==
    /\ anchor_element_id = <<>>
    /\ driver = "none"
    /\ close_calls = 0
    /\ exc = "none"
    /\ nb_result = EmptyResult

Init ==
    /\ all_nodes \in DistinctSeqsUpTo(VisNodeUniverse, MaxNodes)
    /\ all_relationships \in DistinctSeqsUpTo(VisRelUniverse, MaxRels)
    /\ expanded_node_ids \in SUBSET ExpandableIds
    /\ view_type \in {"data", "schema"}
    /\ layout = "cola"
    /\ height = 720
    /\ pc = "input"
    /\ visible = NoVisible
    /\ elements = NoElements
    /\ html_output = NoPayload
    /\ HostIdle
    /\ NeighbourIdle

GetVisibleNodes ==
    /\ pc = "input"
    /\ visible' = get_visible_nodes(all_nodes, all_relationships,
                                    expanded_node_ids, view_type)
    /\ pc' = "visible"
    /\ UNCHANGED <<all_nodes, all_relationships, expanded_node_ids, view_type,
                   layout, height, elements, html_output, host_vars,
                   neighbour_vars>>

Next == GetVisibleNodes

Spec == Init /\ [][Next]_vars

(***************************************************************************)
(* Inputs of the rendering specification: nodes whose labels, property     *)
(* keys and property values carry markup, quotes, reserved keys, falsy     *)
(* values, over-long texts, a properties field that is None and a value    *)
(* json cannot serialise; relationships with a dangling end, a self loop   *)
(* with markup in its type and an empty start id; and generated lists at   *)
(* and just over the schema limit and the dagre limit.                     *)
(***************************************************************************)
MaxRenderNodes == 2
MaxRenderRels == 1

BoldX == <<"<", "b", ">", "x", "<", "/", "b", ">">>
Alice == <<"A", "l", "i", "c", "e">>
key_note == <<"n", "o", "t", "e">>

id_n1 == <<"n", "1">>
id_n2 == <<"n", "2">>
id_n3 == <<"n", "3">>
id_n9 == <<"n", "9">>

RenderNodeList ==
    << Node(id_n1, <<PersonLabel>>,
           Dict(<<Item(key_name, StrVal(Alice)),
                  Item(<<"a", "g", "e">>, IntVal(30))>>)),
      Node(id_n2, <<PersonLabel>>, Dict(<<Item(key_note, StrVal(BoldX))>>)),
      Node(id_n3, << <<"<", "i", ">">> >>,
           Dict(<<Item(<<"<", "u", ">">>, StrVal(<<"v", "\"", "\\">>)),
                  Item(key_id, StrVal(<<"<", "s", ">", "&">>))>>)),
      Node(<<"n", "4">>, <<PersonLabel>>, NoneDict),
      Node(<<"n", "5">>, <<PersonLabel>>,
           Dict(<<Item(<<"w", "h", "e", "n">>, ObjVal)>>)),
      Node(<<"n", "6">>, <<DocumentLabel, ChunkLabel>>,
           Dict(<<Item(key_embedding, StrVal(<<"0", ".", "1">>)),
                  Item(key_text, StrVal(<<"s", "e", "c", "r", "e", "t">>)),
                  Item(key_summary, StrVal(<<"s", "u", "m">>)),
                  Item(key_id, StrVal(<<>>)),
                  Item(key_name, IntVal(0)),
                  Item(key_fileName, StrVal(<<"a", ".", "p", "d", "f">>))>>)),
      Node(<<"n", "7">>, <<>>,
           Dict(<<Item(key_id, StrVal(<<>>)),
                  Item(key_name, IntVal(0)),
                  Item(key_fileName, NoneVal),
                  Item(<<"f", "l", "a", "g">>, BoolVal(FALSE))>>)),
      Node(<<"n", "8">>, <<ChunkLabel>>,
           Dict(<<Item(key_id, StrVal(Repeat("a", CaptionMax - 1) \o <<"<", "b">>)),
                  Item(key_name, IntVal(7)),
                  Item(<<"l", "o", "n", "g">>,
                       StrVal(Repeat("a", TooltipValueMax - 2) \o <<"<", "z">>))>>)) >>

RenderRelUniverse ==
    { Rel(<<"r", "1">>, id_n1, id_n2, KNOWS),
      Rel(<<"r", "2">>, id_n1, id_n9, KNOWS),
      Rel(<<"r", "3">>, id_n2, id_n2, <<"<", "/", "s", ">">>),
      Rel(<<"r", "4">>, <<>>, id_n1, KNOWS) }

RenderExpandableIds == {id_n1, id_n3}

\* the i-th node of a generated schema
GenNode(i) == Node(<<"g">> \o Digits(i), <<PersonLabel>>, Dict(<<>>))
GenNodes(n) == [i \in 1..n |-> GenNode(i)]

GenRelLists ==
    { <<>>,
      <<Rel(<<"r", "1">>, GenNode(1).element_id, GenNode(2).element_id, KNOWS)>>,
      <<Rel(<<"r", "2">>, GenNode(1).element_id,
            GenNode(SchemaNodeLimit + 1).element_id, KNOWS)>> }

\* the sizes of the generated lists: at and just over the two limits
GenSizes == {DagreNodeLimit, DagreNodeLimit + 1,
             SchemaNodeLimit, SchemaNodeLimit + 1}

LayoutArgs == LayoutNames \cup {"invalid_layout", UnhashableLayout}
Heights == {720, 400}

\* every layout at the default height, and the default layout at each height
RenderArgs == {a \in LayoutArgs \X Heights : a[1] = "cola" \/ a[2] = 720}

InitRender ==
    /\ \/ /\ all_nodes \in SubListsUpTo(RenderNodeList, MaxRenderNodes)
          /\ all_relationships \in DistinctSeqsUpTo(RenderRelUniverse, MaxRenderRels)
          /\ expanded_node_ids \in {{}, RenderExpandableIds}
       \/ /\ all_nodes \in {GenNodes(n) : n \in GenSizes}
          /\ all_relationships \in GenRelLists
          /\ expanded_node_ids = {}
    /\ view_type \in {"data", "schema"}
    /\ layout = "cola"
    /\ height = 720
    /\ pc = "input"
    /\ visible = NoVisible
    /\ elements = NoElements
    /\ html_output = NoPayload
    /\ HostIdle
    /\ NeighbourIdle

ConvertToCytoscapeFormat ==
    /\ pc = "input"
    /\ elements' = _convert_to_cytoscape_format(all_nodes, all_relationships,
                                                expanded_node_ids, COLOR_SCHEME)
    /\ pc' = "converted"
    /\ UNCHANGED <<all_nodes, all_relationships, expanded_node_ids, view_type,
                   layout, height, visible, html_output, host_vars,
                   neighbour_vars>>

RenderCytoscapeGraph ==
    /\ pc = "input"
    /\ \E a \in RenderArgs :
          /\ layout' = a[1]
          /\ height' = a[2]
          /\ html_output' = render_cytoscape_graph(all_nodes, all_relationships,
                                                   a[1], expanded_node_ids,
                                                   view_type, a[2])
    /\ pc' = "rendered"
    /\ all_nodes' = CallerNodes(all_nodes, view_type)
    /\ UNCHANGED <<all_relationships, expanded_node_ids, view_type,
                   visible, elements, host_vars, neighbour_vars>>

NextRender ==
    \/ GetVisibleNodes
    \/ ConvertToCytoscapeFormat
    \/ RenderCytoscapeGraph

RenderSpec == InitRender /\ [][NextRender]_vars

(***************************************************************************)
(* The graph tab of the Streamlit host in data view, app.py 713-814, with  *)
(* the session state of lines 414-422.  Streamlit runs the whole script    *)
(* again after every interaction; a widget with a key keeps its value from *)
(* run to run while it is rendered.                                        *)
(***************************************************************************)
MaxFetches == 2

\* lines 755-756: labels and labels[0] == 'Document'
is_expandableAnyNode(node) == TRUE
is_expandable(node) == Len(node.labels) > 0 /\ node.labels[1] = DocumentLabel

\* line 759: properties.get('fileName') or properties.get('id') or node_id
node_label(node) ==
    IF Truthy(Get(node.properties, key_fileName))
    THEN Get(node.properties, key_fileName)
    ELSE IF Truthy(Get(node.properties, key_id))
         THEN Get(node.properties, key_id)
    ELSE StrVal(node.element_id)

\* lines 752-761: the options of the multiselect, in node order
expandable_nodes(nodes) ==
    LET documents == SelectSeq(nodes, is_expandable)
    IN  [i \in DOMAIN documents |-> node_label(documents[i])]

\* lines 753, 761: a later node with the same label replaces an earlier one
node_id_to_label(nodes) ==
    LET documents == SelectSeq(nodes, is_expandable)
        last(l) == CHOOSE i \in DOMAIN documents :
                      /\ node_label(documents[i]) = l
                      /\ \A j \in DOMAIN documents :
                            node_label(documents[j]) = l => j <= i
    IN  [l \in Range(expandable_nodes(nodes)) |-> documents[last(l)].element_id]

\* line 772
selected_ids(nodes, selected_labels) ==
    {node_id_to_label(nodes)[l] :
        l \in selected_labels \cap DOMAIN node_id_to_label(nodes)}

\* what get_graph_data returns: status Failed (line 210 or the backend's),
\* status Success with the data of the backend, or another shape
FetchOutcomes == {"Failed", "Success", "Unexpected"}

\* one run of lines 719-814 in data view: the values the run leaves in the
\* session state, whether it fetched, whether it rendered the expand
\* widgets, and whether it ended in st.rerun() (line 778)
DataViewScript(selected_labels, clicked, outcome) ==
    LET fetch == sources /\ all_nodes = <<>>
        stored == fetch /\ outcome = "Success"
        nodes1 == IF stored THEN backend.nodes ELSE all_nodes
        rels1 == IF stored THEN backend.relationships ELSE all_relationships
        widget == sources /\ nodes1 # <<>>
    IN  [fetched |-> fetch,
         all_graph_nodes |-> nodes1,
         all_graph_relationships |-> rels1,
         widget |-> widget,
         expanded_nodes |->
            IF ~widget THEN expanded_node_ids
            ELSE IF clicked THEN {}
            ELSE selected_ids(nodes1, selected_labels),
         rerun |-> widget /\ clicked]

\* the graphs the backend may hold: none; two documents (one shown by its
\* file name), a chunk, an entity behind the chunk and a node whose second
\* label is Document; two documents with the same file name and a chunk
id_d4 == <<"d", "4">>
id_d5 == <<"d", "5">>
FileName == <<"a", ".", "p", "d", "f">>

HostGraphs ==
    { [nodes |-> <<>>, relationships |-> <<>>],
      [nodes |-> << Node(id_d1, <<DocumentLabel>>, Dict(<<>>)),
                    Node(id_d4, <<DocumentLabel>>,
                         Dict(<<Item(key_fileName, StrVal(FileName))>>)),
                    Node(id_c1, <<ChunkLabel>>, Dict(<<>>)),
                    Node(id_e2, <<>>, Dict(<<>>)),
                    Node(id_x3, <<ChunkLabel, DocumentLabel>>, Dict(<<>>)) >>,
       relationships |-> << Rel(<<"r", "1">>, id_d1, id_c1, HAS_CHUNK),
                            Rel(<<"r", "2">>, id_c1, id_e2, KNOWS),
                            Rel(<<"r", "3">>, id_e2, id_x3, KNOWS) >>],
      [nodes |-> << Node(id_d4, <<DocumentLabel>>,
                         Dict(<<Item(key_fileName, StrVal(FileName))>>)),
                    Node(id_d5, <<DocumentLabel>>,
                         Dict(<<Item(key_fileName, StrVal(FileName))>>)),
                    Node(id_c1, <<ChunkLabel>>, Dict(<<>>)) >>,
       relationships |-> << Rel(<<"r", "1">>, id_d5, id_c1, HAS_CHUNK) >>] }

\* the documents of the session with the graph extracted from them: no
\* document, documents without a graph yet, documents with a graph
HostStores ==
    {st \in [sources : BOOLEAN, backend : HostGraphs] :
        st.backend.nodes # <<>> => st.sources}

\* lines 414-422
InitHost ==
    /\ all_nodes = <<>>
    /\ all_relationships = <<>>
    /\ expanded_node_ids = {}
    /\ view_type = "data"
    /\ layout = "cola"
    /\ height = 720
    /\ pc = "session"
    /\ visible = NoVisible
    /\ elements = NoElements
    /\ html_output = NoPayload
    /\ \E st \in HostStores : sources = st.sources /\ backend = st.backend
    /\ expand_selector = {}
    /\ graph_data_calls = 0
    /\ NeighbourIdle

\* one run of the script with the given state of the two expand widgets
\* (lines 719-814): fetch when nothing is stored, set the expansion set
\* from the selection, then either st.rerun() or get_visible_nodes.  The
\* value of a widget that a run does not render may be kept or dropped.
HostRun(selected_labels, clicked, outcome) ==
    LET run == DataViewScript(selected_labels, clicked, outcome)
    IN  /\ run.fetched => graph_data_calls < MaxFetches
        /\ graph_data_calls' = IF run.fetched THEN graph_data_calls + 1
                                ELSE graph_data_calls
        /\ all_nodes' = run.all_graph_nodes
        /\ all_relationships' = run.all_graph_relationships
        /\ expanded_node_ids' = run.expanded_nodes
        /\ expand_selector' \in (IF run.widget THEN {selected_labels}
                                  ELSE {expand_selector, {}})
        /\ visible' = IF run.widget /\ ~run.rerun
                       THEN get_visible_nodes(run.all_graph_nodes,
                                              run.all_graph_relationships,
                                              run.expanded_nodes, "data")
                       ELSE visible
        /\ pc' = IF run.rerun THEN "rerun"
                 ELSE IF run.widget THEN "shown" ELSE "no_graph"
        /\ UNCHANGED <<sources, backend, view_type, layout, height, elements,
                       html_output, neighbour_vars>>

\* a run that no expand widget caused (the tab is opened, another widget
\* is used)
DataViewRun ==
    /\ pc \in {"session", "shown", "no_graph"}
    /\ \E outcome \in FetchOutcomes : HostRun(expand_selector, FALSE, outcome)

\* lines 764-772: the user changes the selection of the multiselect
SelectDocuments ==
    /\ pc = "shown"
    /\ \E selected_labels \in SUBSET Range(expandable_nodes(all_nodes)) :
          /\ selected_labels # expand_selector
          /\ \E outcome \in FetchOutcomes :
                HostRun(selected_labels, FALSE, outcome)

\* lines 776-778: the user presses Reset View; the run ends in st.rerun()
ResetView ==
    /\ pc = "shown"
    /\ \E outcome \in FetchOutcomes : HostRun(expand_selector, TRUE, outcome)

\* the run that st.rerun() starts
Rerun ==
    /\ pc = "rerun"
    /\ \E outcome \in FetchOutcomes : HostRun(expand_selector, FALSE, outcome)

\* documents are uploaded, extracted or deleted in the other tabs
DocumentsChange ==
    /\ pc \in {"session", "shown", "no_graph"}
    /\ \E st \in HostStores :
          /\ <<st.sources, st.backend>> # <<sources, backend>>
          /\ sources' = st.sources
          /\ backend' = st.backend
    /\ UNCHANGED <<all_nodes, all_relationships, expanded_node_ids, view_type,
                   layout, height, pc, visible, elements, html_output,
                   expand_selector, graph_data_calls, neighbour_vars>>

NextHost ==
    \/ DataViewRun
    \/ SelectDocuments
    \/ ResetView
    \/ Rerun
    \/ DocumentsChange

HostSpec == InitHost /\ [][NextHost]_vars

(***************************************************************************)
(* get_neighbour_nodes, backend/src/neighbours.py 22-82.  The variable     *)
(* backend holds the graph of the database: its nodes, and relationships   *)
(* that all start and end at one of these nodes.                           *)
(***************************************************************************)
MaxDbRels == 2

EntityLabel == <<"_", "_", "E", "n", "t", "i", "t", "y", "_", "_">>
key_title == <<"t", "i", "t", "l", "e">>

\* the elements of a list in the order of their first occurrence
RECURSIVE Distinct(_)
Distinct(list) ==
    IF list = <<>> THEN <<>>
    ELSE LET front == Distinct(SubSeq(list, 1, Len(list) - 1))
             last == list[Len(list)]
         IN  IF last \in Range(front) THEN front ELSE Append(front, last)

\* lines 33-44: the map the query returns for a node
ProjectNode(node) ==
    LET own == SelectSeq(node.labels, LAMBDA l : l # EntityLabel)
        id == Get(node.properties, key_id)
        title == Get(node.properties, key_title)
    IN  [element_id |-> node.element_id,
         labels |-> <<IF own # <<>> THEN own[1] ELSE <<"*">> >>,
         properties |->
            Dict(<<Item(key_id, IF id # NoneVal THEN id
                                ELSE Get(node.properties, key_fileName)),
                   Item(key_title, IF title # NoneVal THEN title
                                   ELSE StrVal(<<" ">>))>>),
         own_properties |->
            SelectSeq(node.properties.items,
                      LAMBDA item : item.key \notin ReservedKeys)
            \o <<Item(key_embedding, NoneVal), Item(key_text, NoneVal),
                 Item(key_summary, NoneVal)>>]

\* lines 47-54
ProjectRelationship(r) ==
    [start_node_element_id |-> r.start_node_element_id,
     end_node_element_id |-> r.end_node_element_id,
     type |-> r.type,
     element_id |-> r.element_id]

\* lines 22-55: the records of the query.  MATCH (n)<-[rels]->(m) gives a
\* row per relationship at n, none when n has no relationship or does not
\* exist, and the aggregation over no row gives no record.  Rows are taken
\* in the order of the stored relationships.
NEIGHBOURS_FROM_ELEMENT_ID_QUERY(db, id) ==
    LET anchors == SelectSeq(db.nodes, LAMBDA n : n.element_id = id)
        rows == SelectSeq(db.relationships,
                    LAMBDA r : r.start_node_element_id = id
                               \/ r.end_node_element_id = id)
        m_ids == [i \in DOMAIN rows |->
                    IF rows[i].start_node_element_id = id
                    THEN rows[i].end_node_element_id
                    ELSE rows[i].start_node_element_id]
        node_of(e) == CHOOSE n \in Range(db.nodes) : n.element_id = e
        distinct_m == Distinct(m_ids)
        allNodes == <<anchors[1]>>
                    \o [i \in DOMAIN distinct_m |-> node_of(distinct_m[i])]
        allRels == Distinct(rows)
    IN  IF anchors = <<>> \/ rows = <<>> THEN <<>>
        ELSE << [nodes |-> [i \in DOMAIN allNodes |-> ProjectNode(allNodes[i])],
                 relationships |->
                    [i \in DOMAIN allRels |-> ProjectRelationship(allRels[i])]] >>

\* lines 80-81: if driver is not None: driver.close()
should_closeAlways(d) == TRUE
should_close(d) == d # "none"

\* the database: three nodes, and up to MaxDbRels relationships among them
id_p1 == <<"p", "1">>
id_p2 == <<"p", "2">>
id_p3 == <<"p", "3">>
id_zz == <<"z", "z">>

DbNodes ==
    << Node(id_p1, <<EntityLabel, PersonLabel>>,
            Dict(<<Item(key_id, StrVal(<<"A", "d", "a">>)),
                   Item(key_embedding, ObjVal)>>)),
       Node(id_p2, <<DocumentLabel>>,
            Dict(<<Item(key_fileName, StrVal(<<"a", ".", "pdf">>)),
                   Item(key_title, StrVal(<<"T">>)),
                   Item(key_text, StrVal(<<"t">>))>>)),
       Node(id_p3, <<EntityLabel>>, Dict(<<>>)) >>

DbRelUniverse ==
    { Rel(<<"q", "1">>, id_p1, id_p2, KNOWS),
      Rel(<<"q", "2">>, id_p1, id_p2, HAS_CHUNK),
      Rel(<<"q", "3">>, id_p2, id_p1, KNOWS),
      Rel(<<"q", "4">>, id_p1, id_p1, KNOWS),
      Rel(<<"q", "5">>, id_p3, id_p2, KNOWS) }

DbGraphs ==
    { [nodes |-> DbNodes, relationships |-> rels] :
        rels \in DistinctSeqsUpTo(DbRelUniverse, MaxDbRels) }

\* the element_id argument: a node of the database, or no node
AnchorIds == {id_p1, id_p2, id_p3, id_zz}

\* line 58: the call is made; line 59: driver = None
InitNeighbour ==
    /\ all_nodes = <<>>
    /\ all_relationships = <<>>
    /\ expanded_node_ids = {}
    /\ view_type = "data"
    /\ layout = "cola"
    /\ height = 720
    /\ pc = "call"
    /\ visible = NoVisible
    /\ elements = NoElements
    /\ html_output = NoPayload
    /\ sources = FALSE
    /\ backend \in DbGraphs
    /\ expand_selector = {}
    /\ graph_data_calls = 0
    /\ anchor_element_id \in AnchorIds
    /\ driver = "none"
    /\ close_calls = 0
    /\ exc = "none"
    /\ nb_result = EmptyResult

NeighbourRest ==
    <<all_nodes, all_relationships, expanded_node_ids, view_type, layout,
      height, visible, elements, html_output, host_vars, anchor_element_id>>

\* line 63: get_graphDB_driver returns a driver, returns None, or raises
GetDriver ==
    /\ pc = "call"
    /\ \E outcome \in {"driver", "None", "raises"} :
          /\ driver' = IF outcome = "driver" THEN "open" ELSE "none"
          /\ exc' = IF outcome = "raises" THEN "get_graphDB_driver" ELSE exc
          /\ pc' = IF outcome = "raises" THEN "except" ELSE "verify"
    /\ UNCHANGED <<NeighbourRest, close_calls, nb_result>>

\* line 64: driver.verify_connectivity(); None has no such attribute
VerifyConnectivity ==
    /\ pc = "verify"
    /\ \E reachable \in BOOLEAN :
          /\ driver = "none" => ~reachable
          /\ exc' = IF reachable THEN exc
                    ELSE IF driver = "none" THEN "AttributeError"
                    ELSE "verify_connectivity"
          /\ pc' = IF reachable THEN "query" ELSE "except"
    /\ UNCHANGED <<NeighbourRest, driver, close_calls, nb_result>>

\* lines 67-73: the query runs or fails; records[0] of no record raises
\* IndexError; otherwise the record's two lists are the result to return
ExecuteQuery ==
    /\ pc = "query"
    /\ \E runs \in BOOLEAN :
          LET records == NEIGHBOURS_FROM_ELEMENT_ID_QUERY(backend,
                                                         anchor_element_id)
          IN  /\ exc' = IF ~runs THEN "execute_query"
                        ELSE IF records = <<>> THEN "IndexError" ELSE exc
              /\ nb_result' = IF runs /\ records # <<>>
                              THEN [nodes |-> records[1].nodes,
                                    relationships |-> records[1].relationships]
                              ELSE nb_result
              /\ pc' = IF runs /\ records # <<>> THEN "finally" ELSE "except"
    /\ UNCHANGED <<NeighbourRest, driver, close_calls>>

\* lines 75-77: except Exception: return the empty result
Except ==
    /\ pc = "except"
    /\ nb_result' = EmptyResult
    /\ pc' = "finally"
    /\ UNCHANGED <<NeighbourRest, driver, close_calls, exc>>

\* lines 79-82: finally; driver.close() succeeds or raises, and what it
\* raises leaves the call in place of the value that was to be returned
Finally ==
    /\ pc = "finally"
    /\ IF should_close(driver)
       THEN /\ close_calls' = close_calls + 1
            /\ \E closes \in BOOLEAN :
                  /\ driver' = IF closes THEN "closed" ELSE driver
                  /\ exc' = IF closes THEN exc ELSE "close"
                  /\ pc' = IF closes THEN "returned" ELSE "raised"
       ELSE /\ pc' = "returned"
            /\ UNCHANGED <<driver, close_calls, exc>>
    /\ UNCHANGED <<NeighbourRest, nb_result>>

NextNeighbour ==
    \/ GetDriver
    \/ VerifyConnectivity
    \/ ExecuteQuery
    \/ Except
    \/ Finally

NeighbourSpec == InitNeighbour /\ [][NextNeighbour]_vars

(***************************************************************************)
(* Properties of get_visible_nodes.                                        *)
(***************************************************************************)
NodeIdsOf(nodes) == {nodes[i].element_id : i \in DOMAIN nodes}

FirstLabelIsDocument(node) ==
    node.labels # <<>> /\ Head(node.labels) = DocumentLabel

Touches(r, id) ==
    r.start_node_element_id = id \/ r.end_node_element_id = id

OtherEnd(r, id) ==
    IF r.start_node_element_id = id THEN r.end_node_element_id
    ELSE r.start_node_element_id

\* r joins the ids a and b, in either direction
Joins(r, a, b) ==
    \/ r.start_node_element_id = a /\ r.end_node_element_id = b
    \/ r.start_node_element_id = b /\ r.end_node_element_id = a

\* C1: referential closure of get_visible_nodes: in both view modes every
\* returned relationship has its start and its end id among the element ids
\* of the returned nodes.
C1_ReferentialClosure ==
    pc = "visible" =>
        \A i \in DOMAIN visible.relationships :
            /\ visible.relationships[i].start_node_element_id
                  \in NodeIdsOf(visible.nodes)
            /\ visible.relationships[i].end_node_element_id
                  \in NodeIdsOf(visible.nodes)

\* the Document nodes and the input nodes joined to one by a relationship
C2_SeededNodes ==
    SelectSeq(all_nodes,
        LAMBDA n :
            \/ FirstLabelIsDocument(n)
            \/ \E i \in DOMAIN all_relationships, j \in DOMAIN all_nodes :
                  /\ FirstLabelIsDocument(all_nodes[j])
                  /\ Joins(all_relationships[i], all_nodes[j].element_id,
                           n.element_id))

\* C2: one-hop seeding: in data mode with an empty expansion set the
\* returned nodes are exactly the Document nodes and the input nodes joined
\* to a Document node by a relationship, and a relationship is returned
\* exactly when both of its endpoints are among the returned nodes.
C2_OneHopSeeding ==
    (pc = "visible" /\ view_type = "data" /\ expanded_node_ids = {}) =>
        /\ visible.nodes = C2_SeededNodes
        /\ visible.relationships =
              SelectSeq(all_relationships,
                  LAMBDA r :
                      /\ r.start_node_element_id \in NodeIdsOf(visible.nodes)
                      /\ r.end_node_element_id \in NodeIdsOf(visible.nodes))

\* the node half of C2 alone (holds; recorded with C2's divergence)
C2_NodesOnly ==
    (pc = "visible" /\ view_type = "data" /\ expanded_node_ids = {}) =>
        visible.nodes = C2_SeededNodes

\* C3: expansion non-recursion: in data mode every returned node is a
\* Document or has a relationship whose other endpoint is a Document or is
\* in the expansion set; being next to a node that is merely visible
\* reveals nothing.
C3_ExpansionNonRecursion ==
    (pc = "visible" /\ view_type = "data") =>
        \A k \in DOMAIN visible.nodes :
            LET n == visible.nodes[k] IN
            \/ FirstLabelIsDocument(n)
            \/ \E i \in DOMAIN all_relationships :
                  LET r == all_relationships[i] IN
                  /\ Touches(r, n.element_id)
                  /\ \/ OtherEnd(r, n.element_id) \in expanded_node_ids
                     \/ \E j \in DOMAIN all_nodes :
                           /\ FirstLabelIsDocument(all_nodes[j])
                           /\ all_nodes[j].element_id = OtherEnd(r, n.element_id)

\* a hidden node sits next to a node that is visible only through the
\* expansion of a third node
C3_Witness ==
    /\ pc = "visible" /\ view_type = "data"
    /\ \E h, m \in DOMAIN all_nodes :
          LET hid == all_nodes[h]
              mid == all_nodes[m]
          IN  /\ hid.element_id \notin NodeIdsOf(visible.nodes)
              /\ mid.element_id \in NodeIdsOf(visible.nodes)
              /\ ~FirstLabelIsDocument(mid)
              /\ mid.element_id \notin expanded_node_ids
              /\ \E i \in DOMAIN all_relationships :
                    Joins(all_relationships[i], hid.element_id, mid.element_id)
              /\ \E i \in DOMAIN all_relationships :
                    /\ Touches(all_relationships[i], mid.element_id)
                    /\ OtherEnd(all_relationships[i], mid.element_id)
                          \in expanded_node_ids

\* C4: schema identity: in schema mode the node list and the relationship
\* list are returned unchanged, whatever the expansion set.
C4_SchemaIdentity ==
    (pc = "visible" /\ view_type = "schema") =>
        /\ visible.nodes = all_nodes
        /\ visible.relationships = all_relationships

\* schema mode with a non-empty expansion set, a dangling relationship and
\* an input that data mode would have filtered
C4_Witness ==
    /\ pc = "visible" /\ view_type = "schema"
    /\ expanded_node_ids # {}
    /\ \E i \in DOMAIN all_relationships :
          all_relationships[i].end_node_element_id \notin NodeIdsOf(all_nodes)
    /\ get_visible_nodes(all_nodes, all_relationships, expanded_node_ids, "data")
          # visible

\* C5: no-anchor emptiness: without a node whose first label is Document,
\* data mode with an empty expansion set returns no node and no relationship.
C5_NoAnchorEmptiness ==
    (/\ pc = "visible" /\ view_type = "data" /\ expanded_node_ids = {}
     /\ \A i \in DOMAIN all_nodes : ~FirstLabelIsDocument(all_nodes[i]))
    => (visible.nodes = <<>> /\ visible.relationships = <<>>)

\* no anchor, but nodes (one with Document as second label) and a
\* relationship that mentions a node not supplied
C5_Witness ==
    /\ pc = "visible" /\ view_type = "data" /\ expanded_node_ids = {}
    /\ \A i \in DOMAIN all_nodes : ~FirstLabelIsDocument(all_nodes[i])
    /\ \E i \in DOMAIN all_nodes : DocumentLabel \in Range(all_nodes[i].labels)
    /\ \E i \in DOMAIN all_relationships :
          all_relationships[i].start_node_element_id \notin NodeIdsOf(all_nodes)
    /\ visible.nodes = <<>>

(***************************************************************************)
(* Properties of _convert_to_cytoscape_format and render_cytoscape_graph.  *)
(***************************************************************************)
PayloadNodeIds(p) == {p.elements.nodes[i].data.id : i \in DOMAIN p.elements.nodes}

EscapedNoneGetMessage ==
    <<"&", "#", "x", "2", "7", ";", "NoneType", "&", "#", "x", "2", "7", ";",
      " object has no attribute ",
      "&", "#", "x", "2", "7", ";", "get", "&", "#", "x", "2", "7", ";">>

\* C6: render_cytoscape_graph always returns one of the three payloads
\* (graph, empty-state, error-state) and an exception raised inside it
\* (layout selection, mapping, serialisation) yields the error-state
\* payload with the HTML-escaped exception message.
C6_AlwaysRenderable ==
    pc = "rendered" =>
        /\ html_output.kind \in {"graph", "empty", "error"}
        /\ LET body == RenderBody(all_nodes, all_relationships, layout,
                                  expanded_node_ids, view_type, height)
           IN  body.kind = "raised" =>
                  /\ html_output.kind = "error"
                  /\ html_output.message = HtmlEscape(body.message)
        /\ (/\ all_nodes # <<>>
            /\ layout # UnhashableLayout
            /\ \E i \in DOMAIN all_nodes : all_nodes[i].properties.is_none)
           => (/\ html_output.kind = "error"
               /\ html_output.message = EscapedNoneGetMessage)

\* a node whose properties is None was rendered to the error-state payload
C6_Witness ==
    /\ pc = "rendered"
    /\ \E i \in DOMAIN all_nodes : all_nodes[i].properties.is_none
    /\ html_output.kind = "error"
    /\ html_output.message = EscapedNoneGetMessage

\* the tooltip with every data string escaped: caption, labels, keys, values
RECURSIVE EscapedPropertyParts(_)
EscapedPropertyParts(items) ==
    IF items = <<>> THEN <<>>
    ELSE LET key == Head(items).key
             value == Head(items).value
         IN  (IF key \notin ReservedKeys /\ Truthy(value)
              THEN << HtmlEscape(key) \o <<": ">>
                      \o Take(IF value.t = "str" THEN HtmlEscape(value.s)
                              ELSE Str(value), TooltipValueMax) >>
              ELSE <<>>)
             \o EscapedPropertyParts(Tail(items))

EscapedCaption(node) ==
    LET caption == node_caption(node)
    IN  IF caption.t = "str" THEN HtmlEscape(caption.s) ELSE Str(caption)

EscapedTooltip(node, expanded_nodes) ==
    Join(<< <<"<", "strong", ">">> \o EscapedCaption(node)
               \o <<"<", "/", "strong", ">">>,
            <<"Type: ">>
               \o Join([i \in DOMAIN node.labels |-> HtmlEscape(node.labels[i])],
                       <<", ">>) >>
         \o (IF node.element_id \in expanded_nodes
             THEN << <<"<", "em", ">", "Expanded", "<", "/", "em", ">">> >>
             ELSE <<>>)
         \o EscapedPropertyParts(node.properties.items),
         <<"<", "br", ">">>)

\* C7: escaping contract: every data string (caption source, labels,
\* property keys, property values, relationship type) is escaped before it
\* reaches the caption ('label') field or the tooltip field of an element.
C7_EscapingContract ==
    (pc = "converted" /\ elements.ok) =>
        /\ \A i \in DOMAIN elements.nodes :
              /\ elements.nodes[i].data.label
                    = Take(EscapedCaption(all_nodes[i]), CaptionMax)
              /\ elements.nodes[i].data.tooltip
                    = EscapedTooltip(all_nodes[i], expanded_node_ids)
        /\ \A i \in DOMAIN elements.edges :
              \E k \in DOMAIN all_relationships :
                  /\ elements.edges[i].data.id = all_relationships[k].element_id
                  /\ elements.edges[i].data.label
                        = HtmlEscape(all_relationships[k].type)

\* the part of C7 the code keeps: caption and property values are escaped
\* in the tooltip (recorded with C7's divergence)
C7_ValuesEscapedInTooltip ==
    (pc = "converted" /\ elements.ok) =>
        \A i \in DOMAIN elements.nodes :
            (/\ \A k \in DOMAIN all_nodes[i].labels :
                   HtmlEscape(all_nodes[i].labels[k]) = all_nodes[i].labels[k]
             /\ \A k \in DOMAIN all_nodes[i].properties.items :
                   HtmlEscape(all_nodes[i].properties.items[k].key)
                      = all_nodes[i].properties.items[k].key)
            => elements.nodes[i].data.tooltip
                  = EscapedTooltip(all_nodes[i], expanded_node_ids)

EscapedBoldX ==
    <<"&", "l", "t", ";", "b", "&", "g", "t", ";", "x",
      "&", "l", "t", ";", "/", "b", "&", "g", "t", ";">>

MarkupFree(text) == "<" \notin Range(text)

\* the value <b>x</b> sits under a displayable key of some node and no
\* other data string of the input holds a <
OnlyMarkupIsBoldXValue ==
    /\ \E i \in DOMAIN all_nodes :
          \E k \in DOMAIN all_nodes[i].properties.items :
              /\ all_nodes[i].properties.items[k].value = StrVal(BoldX)
              /\ all_nodes[i].properties.items[k].key \notin ReservedKeys
    /\ \A i \in DOMAIN all_nodes :
          /\ MarkupFree(all_nodes[i].element_id)
          /\ \A k \in DOMAIN all_nodes[i].labels : MarkupFree(all_nodes[i].labels[k])
          /\ \A k \in DOMAIN all_nodes[i].properties.items :
                LET item == all_nodes[i].properties.items[k]
                IN  /\ MarkupFree(item.key)
                    /\ \/ item.value = StrVal(BoldX) /\ item.key \notin ReservedKeys
                       \/ MarkupFree(item.value.s)
    /\ \A i \in DOMAIN all_relationships :
          /\ MarkupFree(all_relationships[i].type)
          /\ MarkupFree(all_relationships[i].element_id)

\* C8: tooltip escaping end to end: a displayable property value <b>x</b>
\* appears in the emitted payload in its escaped form and nowhere as raw
\* markup.
C8_TooltipEscapingEndToEnd ==
    (pc = "rendered" /\ html_output.kind = "graph" /\ OnlyMarkupIsBoldXValue) =>
        /\ Contains(html_output.elements_json, EscapedBoldX)
        /\ ~Contains(html_output.elements_json, <<"<", "b", ">">>)

\* the half of C8 the code keeps (recorded with C8's divergence)
C8_EscapedFormPresent ==
    (pc = "rendered" /\ html_output.kind = "graph" /\ OnlyMarkupIsBoldXValue) =>
        Contains(html_output.elements_json, EscapedBoldX)

C10_EveryRelationshipMapped ==
    (pc = "converted" /\ elements.ok) =>
        /\ Len(elements.edges) = Len(all_relationships)
        /\ \A i \in DOMAIN elements.edges :
              /\ elements.edges[i].data.source
                    = all_relationships[i].start_node_element_id
              /\ elements.edges[i].data.target
                    = all_relationships[i].end_node_element_id
              /\ elements.edges[i].data.label = all_relationships[i].type

(***************************************************************************)
(* Properties of the layout selection and the truncation of                *)
(* render_cytoscape_graph.                                                 *)
(***************************************************************************)
\* the element ids of the nodes of a payload, in payload order
PayloadIdList(p) == [i \in DOMAIN p.elements.nodes |-> p.elements.nodes[i].data.id]

\* the element ids of a node list, in list order
IdList(nodes) == [i \in DOMAIN nodes |-> nodes[i].element_id]

\* the (source, target) pairs of the edges of a payload, in payload order
PayloadEdgeEnds(p) ==
    [i \in DOMAIN p.elements.edges |->
        <<p.elements.edges[i].data.source, p.elements.edges[i].data.target>>]

\* the (start, end) pairs of the relationships with both ends in ids
RelEndsWithin(rels, ids) ==
    LET kept == SelectSeq(rels, LAMBDA r : r.start_node_element_id \in ids
                                           /\ r.end_node_element_id \in ids)
    IN  [i \in DOMAIN kept |->
            <<kept[i].start_node_element_id, kept[i].end_node_element_id>>]

\* C11: schema truncation: in schema view with more than 100 nodes the
\* graph payload holds exactly the first 100 input nodes in input order and
\* exactly the relationships among them (the nodes are cut before the
\* mapping); in data view, or with 100 or fewer nodes, no node is dropped.
C11_SchemaTruncation ==
    (pc = "rendered" /\ html_output.kind = "graph") =>
        IF view_type = "schema" /\ Len(all_nodes) > 100
        THEN /\ PayloadIdList(html_output) = SubSeq(IdList(all_nodes), 1, 100)
             /\ PayloadEdgeEnds(html_output)
                   = RelEndsWithin(all_relationships,
                                   Range(SubSeq(IdList(all_nodes), 1, 100)))
        ELSE PayloadIdList(html_output) = IdList(all_nodes)

\* a schema of 101 nodes with a relationship to the 101st node was cut to
\* 100 nodes and no edge
C11_Witness ==
    /\ pc = "rendered" /\ html_output.kind = "graph"
    /\ view_type = "schema" /\ Len(all_nodes) = 101
    /\ \E i \in DOMAIN all_relationships :
          all_relationships[i].end_node_element_id = all_nodes[101].element_id
    /\ Len(html_output.elements.nodes) = 100
    /\ html_output.elements.edges = <<>>

\* every node has a properties dict whose values json can serialise
Mappable(nodes) ==
    \A i \in DOMAIN nodes :
        /\ ~nodes[i].properties.is_none
        /\ \A k \in DOMAIN nodes[i].properties.items :
              nodes[i].properties.items[k].value.t # "obj"

\* C12: unknown layout fallback: for a layout name outside cola, cose,
\* dagre, circle and random, rendering a non-empty node list gives what the
\* name cola gives: no exception leaves the call, a mappable node list
\* yields a graph payload, and a graph payload carries exactly the
\* parameters of the cola preset, in both views and at every node count
\* (never circle).
C12_UnknownLayoutFallback ==
    (/\ pc = "rendered" /\ all_nodes # <<>>
     /\ layout \notin {"cola", "cose", "dagre", "circle", "random"}
     /\ layout # UnhashableLayout)
    => /\ html_output.kind \in {"graph", "error"}
       /\ Mappable(all_nodes) => html_output.kind = "graph"
       /\ html_output.kind = "graph" =>
              /\ html_output.layout_config = LAYOUT_CONFIGS["cola"]
              /\ html_output.layout_config[2] = "cola"
              /\ Contains(html_output.layout_json,
                          <<"\"", "name", "\"", ": ", "\"", "cola", "\"">>)
       /\ html_output = render_cytoscape_graph(all_nodes, all_relationships,
                                               "cola", expanded_node_ids,
                                               view_type, height)

\* an unknown layout name on a schema of more than 50 nodes gave a graph
\* payload with the cola parameters
C12_Witness ==
    /\ pc = "rendered" /\ layout = "invalid_layout"
    /\ view_type = "schema" /\ Len(all_nodes) > 50
    /\ html_output.kind = "graph"
    /\ html_output.layout_config[2] = "cola"

\* C13: density override and layout preservation: for a requested preset
\* the graph payload carries the circle parameters when the view is schema,
\* more than 50 nodes remain after truncation and dagre was requested, and
\* exactly the parameters of the requested preset in every other case.
C13_DensityOverride ==
    (/\ pc = "rendered" /\ html_output.kind = "graph"
     /\ layout \in {"cola", "cose", "dagre", "circle", "random"})
    => html_output.layout_config =
          IF /\ view_type = "schema"
             /\ Len(html_output.elements.nodes) > 50
             /\ layout = "dagre"
          THEN LAYOUT_CONFIGS["circle"]
          ELSE LAYOUT_CONFIGS[layout]

\* dagre was requested for a schema of 51 nodes and circle was used
C13_Witness ==
    /\ pc = "rendered" /\ html_output.kind = "graph"
    /\ view_type = "schema" /\ Len(all_nodes) = 51 /\ layout = "dagre"
    /\ html_output.layout_config[2] = "circle"

\* C14: empty state: an empty node list yields the empty-state payload with
\* the fixed message and no graph element, whatever the relationships, the
\* layout (preset, unknown name or not a name), the expansion set, the view
\* and the height.
C14_EmptyState ==
    (pc = "rendered" /\ all_nodes = <<>>) =>
        /\ html_output.kind = "empty"
        /\ html_output.message
              = <<"No nodes to display. Upload and extract documents first.">>
        /\ html_output.elements.nodes = <<>>
        /\ html_output.elements.edges = <<>>
        /\ html_output.elements_json = <<>>

\* the empty-state payload was emitted for an empty node list with a
\* relationship, a non-empty expansion set and a layout that is not a name
C14_Witness ==
    /\ pc = "rendered" /\ all_nodes = <<>>
    /\ all_relationships # <<>> /\ expanded_node_ids # {}
    /\ layout = UnhashableLayout /\ view_type = "schema"
    /\ html_output.kind = "empty"

\* the same with an unknown layout name, and with a height that is not the
\* default
C14_WitnessOtherArguments ==
    /\ pc = "rendered" /\ all_nodes = <<>> /\ html_output.kind = "empty"
    /\ layout = "invalid_layout" \/ height # 720

(***************************************************************************)
(* Properties of the elements the mapper emits.                            *)
(***************************************************************************)
\* the non-empty str values a node holds under embedding, text or summary
ReservedValues(node) ==
    {node.properties.items[k].value.s :
        k \in {j \in DOMAIN node.properties.items :
                 /\ node.properties.items[j].key
                       \in {key_embedding, key_text, key_summary}
                 /\ node.properties.items[j].value.t = "str"
                 /\ node.properties.items[j].value.s # <<>>}}

\* C15: reserved keys are excluded from display surfaces: the value a node
\* holds under embedding, text or summary is in no field of the element the
\* mapper emits for it (caption, tooltip, properties) and nowhere in the
\* elements text of the payload.
C15_ReservedKeysExcluded ==
    /\ (pc = "converted" /\ elements.ok) =>
          \A i \in DOMAIN elements.nodes :
              /\ \A k \in DOMAIN elements.nodes[i].data.properties.items :
                    elements.nodes[i].data.properties.items[k].key
                       \notin {key_embedding, key_text, key_summary}
              /\ \A v \in ReservedValues(all_nodes[i]) :
                    /\ ~Contains(elements.nodes[i].data.tooltip, v)
                    /\ ~Contains(elements.nodes[i].data.label, v)
    /\ (pc = "rendered" /\ html_output.kind = "graph") =>
          \A i \in DOMAIN all_nodes :
              \A v \in ReservedValues(all_nodes[i]) :
                  ~Contains(html_output.elements_json, v)

\* the part of C15 the code keeps: the tooltip and the caption of a node
\* that has reserved keys show none of their values (recorded with C15's
\* divergence)
C15_TooltipExcludesReserved ==
    (pc = "converted" /\ elements.ok) =>
        \A i \in DOMAIN elements.nodes :
            \A v \in ReservedValues(all_nodes[i]) :
                /\ ~Contains(elements.nodes[i].data.tooltip, v)
                /\ ~Contains(elements.nodes[i].data.label, v)

\* a value that is not null, not the empty string, not 0 and not false
IsTruthyValue(value) ==
    /\ value # NoneVal
    /\ value # StrVal(<<>>)
    /\ value # IntVal(0)
    /\ value # BoolVal(FALSE)

\* the first truthy of properties.id, properties.name, properties.fileName,
\* else labels[0], else the literal Node; as text
FirstTruthyCaption(node) ==
    LET candidates == SelectSeq(<<Get(node.properties, key_id),
                                  Get(node.properties, key_name),
                                  Get(node.properties, key_fileName)>>,
                                IsTruthyValue)
    IN  IF candidates # <<>> THEN candidates[1]
        ELSE IF node.labels # <<>> THEN StrVal(node.labels[1])
        ELSE StrVal(<<"N", "o", "d", "e">>)

\* the text of a value with the markup characters of a str escaped
EscapedText(value) ==
    IF value.t = "str" THEN HtmlEscape(value.s) ELSE Str(value)

ExpandedMarker == <<"<", "em", ">", "Expanded", "<", "/", "em", ">">>
LineBreak == <<"<", "br", ">">>

\* the first two tooltip entries: the escaped caption and the labels
TooltipHead(node) ==
    <<"<", "strong", ">">> \o EscapedText(FirstTruthyCaption(node))
    \o <<"<", "/", "strong", ">">> \o LineBreak
    \o <<"Type: ">> \o Join(node.labels, <<", ">>)

\* the properties that contribute a tooltip entry, in property order
ContributingItems(node) ==
    SelectSeq(node.properties.items,
        LAMBDA item : /\ item.key \notin {key_embedding, key_text, key_summary}
                      /\ IsTruthyValue(item.value))

\* the value part of a tooltip entry: at most the first 100 characters
ValuePart(value) ==
    LET whole == EscapedText(value)
    IN  IF Len(whole) > 100 THEN SubSeq(whole, 1, 100) ELSE whole

\* C16: tooltip construction: the tooltip is, in this order, the escaped
\* caption, the comma-joined labels, the Expanded marker iff the node id is
\* in the expansion set, and one key: value entry per property in property
\* order for exactly the properties whose key is not embedding, text or
\* summary and whose value is truthy (null, empty string, 0 and false
\* contribute nothing), the value part being at most 100 characters.
C16_TooltipConstruction ==
    (pc = "converted" /\ elements.ok) =>
        \A i \in DOMAIN elements.nodes :
            LET node == all_nodes[i]
                items == ContributingItems(node)
                entries == [k \in DOMAIN items |->
                               items[k].key \o <<": ">> \o ValuePart(items[k].value)]
            IN  /\ elements.nodes[i].data.tooltip
                      = Join(<<TooltipHead(node)>>
                             \o (IF node.element_id \in expanded_node_ids
                                 THEN <<ExpandedMarker>> ELSE <<>>)
                             \o entries, LineBreak)
                /\ \A k \in DOMAIN items : Len(ValuePart(items[k].value)) <= 100

\* a node whose properties are null, the empty string, 0 and false got a
\* tooltip without entries, and a node with reserved keys was mapped
C16_Witness ==
    /\ pc = "converted" /\ elements.ok
    /\ \E i \in DOMAIN all_nodes :
          /\ {NoneVal, StrVal(<<>>), IntVal(0), BoolVal(FALSE)}
                \subseteq {all_nodes[i].properties.items[k].value :
                              k \in DOMAIN all_nodes[i].properties.items}
          /\ elements.nodes[i].data.tooltip = TooltipHead(all_nodes[i])
    /\ \E i \in DOMAIN all_nodes :
          \E k \in DOMAIN all_nodes[i].properties.items :
              /\ all_nodes[i].properties.items[k].key = key_text
              /\ IsTruthyValue(all_nodes[i].properties.items[k].value)

\* a node in the expansion set was mapped with a node whose value is
\* longer than 100 characters
C16_WitnessMarkerAndCut ==
    /\ pc = "converted" /\ elements.ok
    /\ \E i \in DOMAIN all_nodes : all_nodes[i].element_id \in expanded_node_ids
    /\ \E i \in DOMAIN all_nodes :
          \E k \in DOMAIN all_nodes[i].properties.items :
              /\ Len(EscapedText(all_nodes[i].properties.items[k].value)) > 100
              /\ all_nodes[i].properties.items[k].key
                    \notin {key_embedding, key_text, key_summary}

\* C17: caption resolution: the caption (label field) is the first truthy
\* of properties.id, properties.name, properties.fileName (a present but
\* falsy one is skipped), else labels[0], else the literal Node, converted
\* to text and cut to at most 30 characters.
C17_CaptionResolution ==
    (pc = "converted" /\ elements.ok) =>
        \A i \in DOMAIN elements.nodes :
            LET whole == Str(FirstTruthyCaption(all_nodes[i]))
            IN  /\ elements.nodes[i].data.label
                      = (IF Len(whole) > 30 THEN SubSeq(whole, 1, 30) ELSE whole)
                /\ Len(elements.nodes[i].data.label) <= 30

\* a node with a falsy id and name took its fileName, and a node with a
\* truthy id and name took its id, cut to 30 characters
C17_Witness ==
    /\ pc = "converted" /\ elements.ok
    /\ \E i \in DOMAIN all_nodes :
          /\ Get(all_nodes[i].properties, key_id) = StrVal(<<>>)
          /\ Get(all_nodes[i].properties, key_name) = IntVal(0)
          /\ StrVal(elements.nodes[i].data.label)
                = Get(all_nodes[i].properties, key_fileName)
    /\ \E i \in DOMAIN all_nodes :
          /\ IsTruthyValue(Get(all_nodes[i].properties, key_name))
          /\ Len(Get(all_nodes[i].properties, key_id).s) > 30
          /\ elements.nodes[i].data.label
                = SubSeq(Get(all_nodes[i].properties, key_id).s, 1, 30)

\* a node without labels and without a truthy candidate got the caption
\* Node, and a node with a label and no candidate got its first label
C17_WitnessFallbacks ==
    /\ pc = "converted" /\ elements.ok
    /\ \E i \in DOMAIN all_nodes :
          /\ all_nodes[i].labels = <<>>
          /\ elements.nodes[i].data.label = <<"N", "o", "d", "e">>
    /\ \E i \in DOMAIN all_nodes :
          /\ all_nodes[i].labels # <<>>
          /\ elements.nodes[i].data.label = all_nodes[i].labels[1]

\* the tooltip of node has the Expanded marker as the entry after the labels
CarriesMarker(tooltip, node) ==
    LET from == Len(TooltipHead(node))
        entry == LineBreak \o ExpandedMarker
    IN  /\ Len(tooltip) >= from + Len(entry)
        /\ SubSeq(tooltip, from + 1, from + Len(entry)) = entry

\* size, flag, class and tooltip marker of the element agree with member
MarkingAgrees(element, node, member) ==
    /\ element.data.size = (IF member THEN 25 ELSE 20)
    /\ element.data.expanded = member
    /\ element.classes = (IF member THEN <<"expanded">> ELSE <<>>)
    /\ CarriesMarker(element.data.tooltip, node) = member

\* C18: expanded marking is a function of membership alone: a mapped node
\* has size 25 (otherwise 20), the expanded flag, the class expanded and
\* the Expanded marker in its tooltip exactly when its id is in the
\* expansion set, whatever its relationships, its labels and the view.
C18_ExpandedMarking ==
    /\ (pc = "converted" /\ elements.ok) =>
          \A i \in DOMAIN elements.nodes :
              MarkingAgrees(elements.nodes[i], all_nodes[i],
                            all_nodes[i].element_id \in expanded_node_ids)
    /\ (pc = "rendered" /\ html_output.kind = "graph") =>
          \A i \in DOMAIN html_output.elements.nodes :
              MarkingAgrees(html_output.elements.nodes[i], all_nodes[i],
                            all_nodes[i].element_id \in expanded_node_ids)

\* an expanded node without an edge was mapped next to a node that is not
\* expanded and has an edge
C18_Witness ==
    /\ pc = "converted" /\ elements.ok
    /\ \E i, j \in DOMAIN elements.nodes :
          /\ elements.nodes[i].data.size = 25
          /\ elements.nodes[j].data.size = 20
          /\ \E e \in DOMAIN elements.edges :
                /\ elements.edges[e].data.source = elements.nodes[j].data.id
                /\ elements.edges[e].data.target = elements.nodes[j].data.id

\* two expanded nodes with different labels were rendered in schema view
C18_WitnessLabelsAndView ==
    /\ pc = "rendered" /\ html_output.kind = "graph" /\ view_type = "schema"
    /\ \E i, j \in DOMAIN html_output.elements.nodes :
          /\ html_output.elements.nodes[i].data.labels
                # html_output.elements.nodes[j].data.labels
          /\ html_output.elements.nodes[i].classes = <<"expanded">>
          /\ html_output.elements.nodes[j].classes = <<"expanded">>

(***************************************************************************)
(* Properties of the texts _build_html_template embeds.                    *)
(***************************************************************************)
\* C19: script-block neutralisation: whatever the data of nodes and
\* relationships, neither the serialised elements text nor the serialised
\* layout text of a graph payload holds the two characters </ in a row.
C19_ScriptNeutralisation ==
    (pc = "rendered" /\ html_output.kind = "graph") =>
        /\ ~Contains(html_output.elements_json, <<"<", "/">>)
        /\ ~Contains(html_output.layout_json, <<"<", "/">>)

\* a relationship type with </ reached the payload as an edge label, and
\* the text holds the rewritten form
C19_Witness ==
    /\ pc = "rendered" /\ html_output.kind = "graph"
    /\ \E e \in DOMAIN html_output.elements.edges :
          Contains(html_output.elements.edges[e].data.label, <<"<", "/">>)
    /\ Contains(html_output.elements_json, <<"<", "\\", "/">>)
    /\ html_output.layout_json # <<>>

(***************************************************************************)
(* Further properties of get_visible_nodes.                                *)
(***************************************************************************)
\* a is b with some elements left out: same relative order, nothing added
IsSubsequence(a, b) ==
    \E f \in [DOMAIN a -> DOMAIN b] :
        /\ \A i, j \in DOMAIN a : i < j => f[i] < f[j]
        /\ \A i \in DOMAIN a : b[f[i]] = a[i]

\* C21: order preservation: in data mode the returned node list is a
\* subsequence of the input node list and the returned relationship list a
\* subsequence of the input relationship list.
C21_OrderPreservation ==
    (pc = "visible" /\ view_type = "data") =>
        /\ IsSubsequence(visible.nodes, all_nodes)
        /\ IsSubsequence(visible.relationships, all_relationships)

\* two nodes were returned and a node that stood between them was not
C21_Witness ==
    /\ pc = "visible" /\ view_type = "data"
    /\ Len(all_nodes) = 3 /\ Len(visible.nodes) = 2
    /\ visible.nodes = <<all_nodes[1], all_nodes[3]>>

\* C28: monotonicity of disclosure: in data mode, for the same nodes and
\* relationships, every subset of the expansion set gives a subset of the
\* visible nodes and a subset of the visible relationships.
C28_Monotonicity ==
    (pc = "visible" /\ view_type = "data") =>
        \A smaller \in SUBSET expanded_node_ids :
            LET less == get_visible_nodes(all_nodes, all_relationships,
                                          smaller, "data")
            IN  /\ Range(less.nodes) \subseteq Range(visible.nodes)
                /\ Range(less.relationships) \subseteq Range(visible.relationships)

\* an expansion set of two ids shows strictly more nodes than one of its
\* one-id subsets, which shows strictly more than the empty set
C28_Witness ==
    /\ pc = "visible" /\ view_type = "data"
    /\ \E one \in SUBSET expanded_node_ids :
          LET none_ == get_visible_nodes(all_nodes, all_relationships, {}, "data")
              some == get_visible_nodes(all_nodes, all_relationships, one, "data")
          IN  /\ Len(none_.nodes) > 0
              /\ Len(none_.nodes) < Len(some.nodes)
              /\ Len(some.nodes) < Len(visible.nodes)

\* node n has a relationship whose other end is a Document of the input or
\* an id of the expansion set
SharesWithAnchorOrExpanded(n) ==
    \E i \in DOMAIN all_relationships :
        LET r == all_relationships[i]
            other == OtherEnd(r, n.element_id)
        IN  /\ Touches(r, n.element_id)
            /\ \/ other \in expanded_node_ids
               \/ \E j \in DOMAIN all_nodes :
                     /\ FirstLabelIsDocument(all_nodes[j])
                     /\ all_nodes[j].element_id = other

\* C29: membership in the expansion set does not make a node visible: in
\* data mode a node is returned exactly when it is a Document or shares a
\* relationship with a Document or with an id of the expansion set (a self
\* loop on an expanded node counts), and no returned relationship touches a
\* node that is not returned.
C29_MembershipIsNotVisibility ==
    (pc = "visible" /\ view_type = "data") =>
        \A k \in DOMAIN all_nodes :
            LET n == all_nodes[k] IN
            /\ (n \in Range(visible.nodes))
                  <=> (FirstLabelIsDocument(n) \/ SharesWithAnchorOrExpanded(n))
            /\ (n \notin Range(visible.nodes)) =>
                  \A i \in DOMAIN visible.relationships :
                      ~Touches(visible.relationships[i], n.element_id)

\* an expanded node that is no Document is absent although its
\* relationship revealed its neighbour, and that relationship is absent too
C29_Witness ==
    /\ pc = "visible" /\ view_type = "data"
    /\ \E k \in DOMAIN all_nodes :
          LET n == all_nodes[k] IN
          /\ n.element_id \in expanded_node_ids
          /\ n \notin Range(visible.nodes)
          /\ \E i \in DOMAIN all_relationships :
                /\ Touches(all_relationships[i], n.element_id)
                /\ all_relationships[i] \notin Range(visible.relationships)
                /\ OtherEnd(all_relationships[i], n.element_id)
                      \in NodeIdsOf(visible.nodes)

(***************************************************************************)
(* Frame of the three core functions.                                      *)
(***************************************************************************)
\* C22: the core never mutates its inputs: a call of get_visible_nodes,
\* _convert_to_cytoscape_format or render_cytoscape_graph leaves the
\* caller's node list (with every node's properties), relationship list
\* and expansion set as they were, also when the schema is truncated.
C22_NoInputMutation ==
    [][pc' \in {"visible", "converted", "rendered"} =>
          /\ all_nodes' = all_nodes
          /\ all_relationships' = all_relationships
          /\ expanded_node_ids' = expanded_node_ids]_vars

\* a schema of 101 nodes was rendered with 100 of them and the caller still
\* holds 101, and its relationship to the 101st node
C22_Witness ==
    /\ pc = "rendered" /\ html_output.kind = "graph" /\ view_type = "schema"
    /\ Len(html_output.elements.nodes) = 100
    /\ Len(all_nodes) = 101
    /\ \E i \in DOMAIN all_relationships :
          all_relationships[i].end_node_element_id = all_nodes[101].element_id

(***************************************************************************)
(* Properties of the graph tab of the host.                                *)
(***************************************************************************)
\* C25: expansion-set lifecycle: the expansion set is empty at session
\* start, changes from run to run only when the selection changes or Reset
\* View is pressed, and the render that follows Reset View uses the empty
\* expansion set, whatever was selected before.
C25_ExpansionLifecycle ==
    [][/\ pc = "session" => expanded_node_ids = {}
       /\ expanded_node_ids' # expanded_node_ids =>
             (expand_selector' # expand_selector \/ pc' = "rerun")
       /\ (pc = "rerun" /\ pc' = "shown") => expanded_node_ids' = {}]_vars

\* the last part of C25 alone: the render after Reset View uses the empty
\* expansion set (recorded with C25's divergence)
C25_ResetEmptiesNextRender ==
    [][(pc = "rerun" /\ pc' = "shown") => expanded_node_ids' = {}]_vars

\* what the code keeps: the set is empty at session start and at every
\* render it holds the ids of the documents selected in the widget
\* (recorded with C25's divergence)
C25_FollowsSelection ==
    /\ pc = "session" => expanded_node_ids = {}
    /\ pc = "shown" =>
          expanded_node_ids = selected_ids(all_nodes, expand_selector)

\* C26: graph data is collected once per session: get_graph_data is
\* called at most once, whatever the renders, the document changes and the
\* outcome of the fetch.
C26_CollectedOnce == graph_data_calls <= 1

\* what the code keeps: a stored non-empty node list is never replaced and
\* no fetch follows it (recorded with C26's divergence)
C26_StoredNeverReplaced ==
    [][all_nodes # <<>> =>
          /\ all_nodes' = all_nodes
          /\ all_relationships' = all_relationships
          /\ graph_data_calls' = graph_data_calls]_vars

\* C27: in the host's data view only Document nodes of the loaded graph are
\* ever in the expansion set, and what get_visible_nodes returned for the
\* expansion set of a render is what it returns for the empty set: no
\* sequence of selections and resets changes what is visible.
C27_HostExpansionChangesNothing ==
    /\ \A id \in expanded_node_ids :
          \E i \in DOMAIN all_nodes :
              /\ all_nodes[i].element_id = id
              /\ FirstLabelIsDocument(all_nodes[i])
    /\ pc = "shown" =>
          visible = get_visible_nodes(all_nodes, all_relationships, {}, "data")

\* a render with a document expanded, while a node of the loaded graph is
\* hidden behind a visible node that is no Document
C27_Witness ==
    /\ pc = "shown" /\ expanded_node_ids # {}
    /\ \E h, m \in DOMAIN all_nodes :
          /\ all_nodes[h] \notin Range(visible.nodes)
          /\ all_nodes[m] \in Range(visible.nodes)
          /\ ~FirstLabelIsDocument(all_nodes[m])
          /\ \E i \in DOMAIN all_relationships :
                Joins(all_relationships[i], all_nodes[h].element_id,
                      all_nodes[m].element_id)


(***************************************************************************)
(* Properties of get_neighbour_nodes.                                      *)
(***************************************************************************)
CallEnded == pc \in {"returned", "raised"}

\* C23: whatever fails in get_neighbour_nodes (driver creation, the
\* connectivity check, the query, a query without a record, closing the
\* driver), no exception leaves the call and the call returns the empty
\* result.
C23_NeverRaises ==
    /\ pc # "raised"
    /\ (pc = "returned" /\ exc # "none") => nb_result = EmptyResult

\* the failures the except clause catches end in the empty result
C23_CaughtFailuresReturnEmpty ==
    (pc = "returned" /\ exc # "none") => nb_result = EmptyResult

AnchorExists == anchor_element_id \in NodeIdsOf(backend.nodes)

AnchorRels ==
    {r \in Range(backend.relationships) : Touches(r, anchor_element_id)}

ClosedNeighbourhood ==
    {anchor_element_id} \cup {OtherEnd(r, anchor_element_id) : r \in AnchorRels}

ReturnsClosedNeighbourhood ==
    /\ NodeIdsOf(nb_result.nodes) = ClosedNeighbourhood
    /\ Len(nb_result.nodes) = Cardinality(ClosedNeighbourhood)
    /\ NodeIdsOf(nb_result.relationships) = {r.element_id : r \in AnchorRels}
    /\ Len(nb_result.relationships) = Cardinality(AnchorRels)

\* C24: for an anchor that exists, a call in which nothing fails returns
\* the anchor and every node adjacent to it in either direction, each
\* exactly once, also when the anchor has no relationship and when it has
\* a self-loop, together with the relationships that touch the anchor.
C24_ClosedNeighbourhood ==
    (pc = "returned" /\ exc \in {"none", "IndexError"} /\ AnchorExists)
        => ReturnsClosedNeighbourhood

\* the same for an anchor that has a relationship and no self-loop
C24_AnchorWithOtherNeighbours ==
    (/\ pc = "returned" /\ exc = "none" /\ AnchorExists
     /\ AnchorRels # {}
     /\ \A r \in AnchorRels : OtherEnd(r, anchor_element_id) # anchor_element_id)
        => ReturnsClosedNeighbourhood

\* C30: the driver is closed exactly once on every path of
\* get_neighbour_nodes on which it was obtained, and close is never
\* invoked when no driver was obtained.
C30_DriverClosedOnce ==
    /\ close_calls <= 1
    /\ driver = "none" => close_calls = 0
    /\ (CallEnded /\ driver # "none") => close_calls = 1

\* a call whose query failed has ended with the driver closed once
C30_Witness ==
    pc = "returned" /\ exc = "execute_query" /\ close_calls = 1
        /\ driver = "closed"

\* a call that obtained no driver has ended without a close
C30_WitnessNoDriver ==
    pc = "returned" /\ exc = "get_graphDB_driver" /\ close_calls = 0

====
